---- MODULE Spec2Model ----
(***************************************************************************)
(* Model of runCharacterFieldGeneration (src/src/generate.ts).             *)
(*                                                                         *)
(* Text is a sequence of lexemes: every brace, bracket, blank, sign and    *)
(* digit is one lexeme and an identifier (user, char, the two placeholder  *)
(* names, a persona name, ...) is one lexeme.  String operations           *)
(* (replaceAll, trim, parseInt) work on these sequences as the JavaScript  *)
(* ones work on characters.                                                *)
(*                                                                         *)
(* An optional value (undefined / null in the source) is None or Some(v).  *)
(***************************************************************************)
EXTENDS Integers, Sequences, FiniteSets, TLC

None == [some |-> FALSE]
Some(v) == [some |-> TRUE, v |-> v]

\* ---------------------------------------------------------------- bounds
MaxEntries == 2
MaxSel == 2
MaxIdxLen == 2
MaxPieces == 2
MaxChat == 2

\* ------------------------------------------------------------- text
UserToken == <<"{", "{", "user", "}", "}">>
CharToken == <<"{", "{", "char", "}", "}">>
UserPlaceHolder == <<"[", "[", "[", "crec_veryUniqueUserPlaceHolder", "]", "]", "]">>
CharPlaceHolder == <<"[", "[", "[", "crec_veryUniqueCharPlaceHolder", "]", "]", "]">>

IsAt(s, p, pat) ==
  /\ p >= 1
  /\ p + Len(pat) - 1 <= Len(s)
  /\ SubSeq(s, p, p + Len(pat) - 1) = pat

\* String.prototype.replaceAll with a string pattern: the occurrences are
\* found left to right, without overlap, and each is replaced.
RECURSIVE replaceAll(_, _, _)
replaceAll(s, pat, rep) ==
  IF Len(s) < Len(pat) THEN s
  ELSE IF IsAt(s, 1, pat)
       THEN rep \o replaceAll(SubSeq(s, Len(pat) + 1, Len(s)), pat, rep)
       ELSE <<Head(s)>> \o replaceAll(Tail(s), pat, rep)

RECURSIVE TrimStart(_)
TrimStart(s) ==
  IF s # <<>> /\ Head(s) = " " THEN TrimStart(Tail(s)) ELSE s

RECURSIVE TrimEnd(_)
TrimEnd(s) ==
  IF s # <<>> /\ s[Len(s)] = " " THEN TrimEnd(SubSeq(s, 1, Len(s) - 1)) ELSE s

trim(s) == TrimEnd(TrimStart(s))

\* ------------------------------------------------------------- parseInt
DigitValue(ch) ==
  CASE ch = "0" -> 0
    [] ch = "1" -> 1
    [] ch = "2" -> 2
    [] ch = "a" -> 10
    [] OTHER -> 99

RECURSIVE DigitPrefix(_, _)
DigitPrefix(s, radix) ==
  IF s # <<>> /\ DigitValue(Head(s)) < radix
  THEN <<DigitValue(Head(s))>> \o DigitPrefix(Tail(s), radix)
  ELSE <<>>

RECURSIVE DigitsValue(_, _)
DigitsValue(ds, radix) ==
  IF ds = <<>> THEN 0
  ELSE DigitsValue(SubSeq(ds, 1, Len(ds) - 1), radix) * radix + ds[Len(ds)]

\* parseInt(string) with no radix: leading white space is skipped, then an
\* optional sign, then an optional 0x prefix (radix 16), then the longest run
\* of digits; what follows is ignored.  No digit at all: NaN (None).
parseInt(str) ==
  LET s1 == TrimStart(str)
      neg == s1 # <<>> /\ Head(s1) = "-"
      s2 == IF s1 # <<>> /\ Head(s1) \in {"-", "+"} THEN Tail(s1) ELSE s1
      hex == Len(s2) >= 2 /\ s2[1] = "0" /\ s2[2] = "x"
      radix == IF hex THEN 16 ELSE 10
      s3 == IF hex THEN SubSeq(s2, 3, Len(s2)) ELSE s2
      ds == DigitPrefix(s3, radix)
  IN IF ds = <<>> THEN None
     ELSE Some((IF neg THEN -1 ELSE 1) * DigitsValue(ds, radix))

\* ------------------------------------------------------------- host
\* Error kinds, named after the throw that raises them.
NoProfileSelected == "NoProfileSelected"
ProfileNotFound == "ProfileNotFound"
ApiUndeterminable == "ApiUndeterminable"
TypeError == "TypeError"
BuildError == "BuildError"
TemplateError == "TemplateError"
RequestError == "RequestError"
ParseError == "ParseError"
NoError == "none"

\* globalContext.CONNECT_API_MAP: api name -> {selected}.
CONNECT_API_MAP ==
  [openai |-> [selected |-> Some("openai")],
   nosel |-> [selected |-> None]]

NameText(n) == IF n.some THEN n.v ELSE <<>>

\* The host's substituteParams, as the substitution that replaces every
\* {{user}} and every {{char}} it sees by the persona names.
substituteParams(text, hostUser, hostChar) ==
  replaceAll(replaceAll(text, UserToken, NameText(hostUser)),
             CharToken, NameText(hostChar))

\* profiles?.find((p) => p.id === profileId)
FindProfile(profs, id) ==
  IF ~profs.some THEN None
  ELSE LET hits == {k \in 1..Len(profs.v) : profs.v[k].id = id}
       IN IF hits = {} THEN None
          ELSE Some(profs.v[CHOOSE k \in hits : \A j \in hits : k <= j])

Falsy(opt) == ~opt.some \/ opt.v = ""

\* profile.api ? CONNECT_API_MAP[profile.api].selected : undefined
\* threw: the property read on an undefined map entry.
SelectedApi(profile) ==
  IF Falsy(profile.api) THEN [threw |-> FALSE, v |-> None]
  ELSE IF profile.api.v \notin DOMAIN CONNECT_API_MAP
       THEN [threw |-> TRUE, v |-> None]
       ELSE [threw |-> FALSE, v |-> CONNECT_API_MAP[profile.api.v].selected]

\* Lines 86-96: the checks made once profileId is known to be non-empty.
ProfileChecks(profileId, profs) ==
  LET profile == FindProfile(profs, profileId)
  IN IF ~profile.some THEN ProfileNotFound
     ELSE LET api == SelectedApi(profile.v)
          IN IF api.threw THEN TypeError
             ELSE IF Falsy(api.v) THEN ApiUndeterminable
             ELSE NoError

\* Preconditions without the check of line 83.
PreconditionsNoEmptyCheck(profileId, profs) ==
  IF profileId = "" THEN NoError ELSE ProfileChecks(profileId, profs)

\* The checks made before the base prompt is built: the error thrown, or
\* NoError.
Preconditions(profileId, profs) ==
  IF profileId = "" THEN NoProfileSelected ELSE ProfileChecks(profileId, profs)

\* ----------------------------------------------------- template context
\* Property names every object inherits.
ProtoKeys == {"constructor"}

GetProp(map, key) ==
  IF key \in DOMAIN map THEN [kind |-> "own", v |-> map[key]]
  ELSE IF key \in ProtoKeys THEN [kind |-> "inherited"]
  ELSE [kind |-> "absent"]

\* x?.prompt
PromptOf(p) == IF p.kind = "own" THEN Some(p.v.prompt) ELSE None

\* The same with || in place of ??: an empty draft prompt falls through.
FieldSpecificInstructionsOr(session, targetField) ==
  LET d == PromptOf(GetProp(session.draftFields, targetField))
  IN IF d.some /\ d.v # <<>> THEN d
     ELSE PromptOf(GetProp(session.fields, targetField))

\* session.draftFields[targetField]?.prompt ?? session.fields[targetField]?.prompt
FieldSpecificInstructions(session, targetField) ==
  LET d == PromptOf(GetProp(session.draftFields, targetField))
  IN IF d.some THEN d ELSE PromptOf(GetProp(session.fields, targetField))

\* allCharacters[charIndexNumber]
CharacterAt(allCharacters, n) ==
  IF n.some /\ n.v >= 0 /\ n.v < Len(allCharacters)
  THEN Some(allCharacters[n.v + 1])
  ELSE None

RECURSIVE CharactersData(_, _)
CharactersData(indexes, allCharacters) ==
  IF indexes = <<>> THEN <<>>
  ELSE LET char == CharacterAt(allCharacters, parseInt(Head(indexes)))
       IN (IF char.some THEN <<char.v>> ELSE <<>>)
          \o CharactersData(Tail(indexes), allCharacters)

\* The filter of line 136 left out.
AllEntries(entries) == entries

RECURSIVE EnabledEntries(_)
EnabledEntries(entries) ==
  IF entries = <<>> THEN <<>>
  ELSE (IF ~Head(entries).disable THEN <<Head(entries)>> ELSE <<>>)
       \o EnabledEntries(Tail(entries))

Includes(seq, x) == \E k \in 1..Len(seq) : seq[k] = x

LorebooksData(entriesGroupByWorldName, selectedWorldNames) ==
  LET kept == {w \in DOMAIN entriesGroupByWorldName :
                 /\ Len(entriesGroupByWorldName[w]) > 0
                 /\ Includes(selectedWorldNames, w)
                 /\ \E k \in 1..Len(entriesGroupByWorldName[w]) :
                      ~entriesGroupByWorldName[w][k].disable}
  IN [w \in kept |-> EnabledEntries(entriesGroupByWorldName[w])]

\* Object.fromEntries(Object.entries(fields).map(f => [f.label, f.value]));
\* labels are unique within one mapping.
LabelValues(fields) ==
  LET labels == {fields[k].label : k \in DOMAIN fields}
  IN [l \in labels |->
        fields[CHOOSE k \in DOMAIN fields : fields[k].label = l].value]

\* The part of templateData set before the base prompt is built.
ScalarContext(r, n1, n2) ==
  [userInstructions |-> substituteParams(trim(r.userPrompt), n1, n2),
   fieldSpecificInstructions |-> FieldSpecificInstructions(r.session, r.targetField),
   targetField |-> r.targetField,
   activeFormatInstructions |-> r.formatDescription,
   char |-> IF n1.some THEN n1.v ELSE CharToken,
   user |-> IF n2.some THEN n2.v ELSE UserToken]

\* The part of templateData set after the base prompt is built.
CollectionContext(r) ==
  [characters |-> CharactersData(r.session.selectedCharacterIndexes, r.allCharacters),
   lorebooks |-> LorebooksData(r.entriesGroupByWorldName, r.session.selectedWorldNames),
   fields |-> [core |-> LabelValues(r.session.fields),
               draft |-> LabelValues(r.session.draftFields)]]

\* ------------------------------------------------------------ templates
\* A compiled template is its sequence of segments: literal text, a
\* {{name}} expression, or a segment the engine rejects.
VarText(td, name) ==
  CASE name = "userInstructions" -> td.userInstructions
    [] name = "fieldSpecificInstructions" -> NameText(td.fieldSpecificInstructions)
    [] name = "targetField" -> <<td.targetField>>
    [] name = "activeFormatInstructions" -> td.activeFormatInstructions
    [] name = "char" -> td.char
    [] name = "user" -> td.user
    [] OTHER -> <<>>

TemplateThrows(template) == \E k \in 1..Len(template) : template[k].t = "bad"

RECURSIVE Render(_, _)
Render(template, td) ==
  IF template = <<>> THEN <<>>
  ELSE LET seg == Head(template)
       IN (IF seg.t = "text" THEN seg.text ELSE VarText(td, seg.name))
          \o Render(Tail(template), td)

\* The replaceAll / substituteParams / replaceAll lines of the loop body.
ProtectSubstituteRestore(rendered, hostUser, hostChar) ==
  LET c1 == replaceAll(rendered, UserToken, UserPlaceHolder)
      c2 == replaceAll(c1, CharToken, CharPlaceHolder)
      c3 == substituteParams(c2, hostUser, hostChar)
      c4 == replaceAll(c3, UserPlaceHolder, UserToken)
  IN replaceAll(c4, CharPlaceHolder, CharToken)

\* The map of the chat history with the empty-content filter of the template
\* entries applied to it.
RoleAndContentFiltered(chat) ==
  SelectSeq([k \in 1..Len(chat) |-> [role |-> chat[k].role, content |-> chat[k].content]],
            LAMBDA m : m.content # <<>>)

\* chatMessages.map((message) => ({role, content}))
RoleAndContent(chat) ==
  [k \in 1..Len(chat) |-> [role |-> chat[k].role, content |-> chat[k].content]]

\* The push without its condition.
PushAlways(role, content) == <<[role |-> role, content |-> content]>>

\* if (message.content) { messages.push(message) }
PushIfContent(role, content) ==
  IF content # <<>> THEN <<[role |-> role, content |-> content]>> ELSE <<>>

\* What one entry of mainContextList does: the messages it pushes, the local
\* message.content before and after the replace lines, and whether the
\* template engine threw.
EntryOutcome(entry, promptSettings, td, chat, hostUser, hostChar) ==
  IF entry.promptName = "chatHistory"
  THEN [threw |-> FALSE, kind |-> "history", push |-> RoleAndContent(chat),
        rendered |-> <<>>, content |-> <<>>]
  ELSE IF entry.promptName \notin DOMAIN promptSettings
  THEN [threw |-> FALSE, kind |-> "skip", push |-> <<>>,
        rendered |-> <<>>, content |-> <<>>]
  ELSE LET template == promptSettings[entry.promptName].content
       IN IF TemplateThrows(template)
          THEN [threw |-> TRUE, kind |-> "template", push |-> <<>>,
                rendered |-> <<>>, content |-> <<>>]
          ELSE LET rendered == Render(template, td)
                   content == ProtectSubstituteRestore(rendered, hostUser, hostChar)
               IN [threw |-> FALSE, kind |-> "template",
                   push |-> PushIfContent(entry.role, content),
                   rendered |-> rendered, content |-> content]

\* parseResponse(response.content, outputFormat): the text, or None when the
\* content does not have the declared format.
parseResponse(content, outputFormat) ==
  IF outputFormat = "none" THEN Some(content)
  ELSE IF content # <<>> /\ Head(content) = "<ok>" THEN Some(Tail(content))
  ELSE None

\* ---------------------------------------------------------------- state
Calls == {1, 2}

VARIABLES
  req,           \* the parameters of runCharacterFieldGeneration
  profiles,      \* extensionSettings.connectionManager?.profiles
  baseChat,      \* what buildPrompt resolves to for the request's options
  name1, name2,  \* the host's persona names
  pc,            \* per call: idle, awaitBuild, loop, awaitSend, done, failed
  error,         \* per call: the error the call rejected with
  templateData, chatMessages, idx, messages, rendered, content,
  sent,          \* per call: the message list handed to sendRequest
  buildCount, sendCount,
  result         \* per call: the value the call resolved with

inputs == <<req, profiles, baseChat>>
names == <<name1, name2>>
locals == <<templateData, chatMessages, idx, messages, rendered, content>>
outcome == <<error, sent, buildCount, sendCount, result>>
vars == <<inputs, names, pc, locals, outcome>>

\* The loop body with an await in it: no position is synchronous.
SyncPcsAwaitInLoop == {}

\* Positions of a call inside a run of statements with no await: the event
\* loop runs nothing else while a call is there.
SyncPcs == {"loop"}

CanRun(c) == \A d \in Calls \ {c} : pc[d] \notin SyncPcs

\* Lines 83-109: the checks, the scalar part of templateData, the call of
\* buildPrompt; the call then waits for the builder.
Start(c) ==
  /\ pc[c] = "idle"
  /\ CanRun(c)
  /\ LET e == Preconditions(req.profileId, profiles)
     IN IF e # NoError
        THEN /\ pc' = [pc EXCEPT ![c] = "failed"]
             /\ error' = [error EXCEPT ![c] = e]
             /\ UNCHANGED <<templateData, buildCount>>
        ELSE /\ pc' = [pc EXCEPT ![c] = "awaitBuild"]
             /\ templateData' = [templateData EXCEPT ![c] = ScalarContext(req, name1, name2)]
             /\ buildCount' = [buildCount EXCEPT ![c] = @ + 1]
             /\ UNCHANGED error
  /\ UNCHANGED <<inputs, names, chatMessages, idx, messages, rendered, content,
                 sent, sendCount, result>>

\* Lines 109-160: buildPrompt resolved; characters, lorebooks and fields are
\* added to templateData and the message list starts empty.
BuildResolve(c) ==
  /\ pc[c] = "awaitBuild"
  /\ CanRun(c)
  /\ chatMessages' = [chatMessages EXCEPT ![c] = baseChat]
  /\ templateData' = [templateData EXCEPT ![c] = @ @@ CollectionContext(req)]
  /\ messages' = [messages EXCEPT ![c] = <<>>]
  /\ idx' = [idx EXCEPT ![c] = 1]
  /\ pc' = [pc EXCEPT ![c] = "loop"]
  /\ UNCHANGED <<inputs, names, rendered, content, outcome>>

\* Line 109: buildPrompt rejected.
BuildReject(c) ==
  /\ pc[c] = "awaitBuild"
  /\ CanRun(c)
  /\ pc' = [pc EXCEPT ![c] = "failed"]
  /\ error' = [error EXCEPT ![c] = BuildError]
  /\ UNCHANGED <<inputs, names, locals, sent, buildCount, sendCount, result>>

\* Lines 162-188: one iteration of the loop over mainContextList.
LoopStep(c) ==
  /\ pc[c] = "loop"
  /\ idx[c] <= Len(req.mainContextList)
  /\ LET o == EntryOutcome(req.mainContextList[idx[c]], req.promptSettings,
                           templateData[c], chatMessages[c], name1, name2)
     IN IF o.threw
        THEN /\ pc' = [pc EXCEPT ![c] = "failed"]
             /\ error' = [error EXCEPT ![c] = TemplateError]
             /\ UNCHANGED <<idx, messages, rendered, content>>
        ELSE /\ messages' = [messages EXCEPT ![c] = @ \o o.push]
             /\ rendered' = [rendered EXCEPT ![c] = o.rendered]
             /\ content' = [content EXCEPT ![c] = o.content]
             /\ idx' = [idx EXCEPT ![c] = @ + 1]
             /\ UNCHANGED <<pc, error>>
  /\ UNCHANGED <<inputs, names, templateData, chatMessages, sent, buildCount,
                 sendCount, result>>

\* Lines 193-197: the loop is over; sendRequest is called with the messages
\* and the call waits for the response.
Send(c) ==
  /\ pc[c] = "loop"
  /\ idx[c] > Len(req.mainContextList)
  /\ sent' = [sent EXCEPT ![c] = Some(messages[c])]
  /\ sendCount' = [sendCount EXCEPT ![c] = @ + 1]
  /\ pc' = [pc EXCEPT ![c] = "awaitSend"]
  /\ UNCHANGED <<inputs, names, locals, error, buildCount, result>>

Responses == {<<"<ok>", "text">>, <<"text">>}

\* Lines 193-204: sendRequest resolved; the response is parsed and returned.
SendResolve(c) ==
  /\ pc[c] = "awaitSend"
  /\ CanRun(c)
  /\ \E response \in Responses :
       LET parsedContent == parseResponse(response, req.outputFormat)
       IN IF parsedContent.some
          THEN /\ pc' = [pc EXCEPT ![c] = "done"]
               /\ result' = [result EXCEPT ![c] = parsedContent]
               /\ UNCHANGED error
          ELSE /\ pc' = [pc EXCEPT ![c] = "failed"]
               /\ error' = [error EXCEPT ![c] = ParseError]
               /\ UNCHANGED result
  /\ UNCHANGED <<inputs, names, locals, sent, buildCount, sendCount>>

\* sendRequest rejected and the request is sent again.
SendRejectRetry(c) ==
  /\ pc[c] = "awaitSend"
  /\ CanRun(c)
  /\ sendCount[c] < 3
  /\ sendCount' = [sendCount EXCEPT ![c] = @ + 1]
  /\ UNCHANGED <<inputs, names, pc, locals, error, sent, buildCount, result>>

\* Line 193: sendRequest rejected.
SendReject(c) ==
  /\ pc[c] = "awaitSend"
  /\ CanRun(c)
  /\ pc' = [pc EXCEPT ![c] = "failed"]
  /\ error' = [error EXCEPT ![c] = RequestError]
  /\ UNCHANGED <<inputs, names, locals, sent, buildCount, sendCount, result>>

HostUserNames == {None, Some(<<"Ann">>)}
HostCharNames == {None, Some(<<"Bob">>)}

\* The host changes its persona names (the user picks another persona or
\* character); like every callback it runs only when no call is running.
HostCallback ==
  /\ \A c \in Calls : pc[c] \notin SyncPcs
  /\ name1' \in HostUserNames
  /\ name2' \in HostCharNames
  /\ <<name1', name2'>> # <<name1, name2>>
  /\ UNCHANGED <<inputs, pc, locals, outcome>>

CallStep(c) ==
  \/ Start(c)
  \/ BuildResolve(c)
  \/ BuildReject(c)
  \/ LoopStep(c)
  \/ Send(c)
  \/ SendResolve(c)
  \/ SendReject(c)

\* --------------------------------------------------------------- inputs
BoundedSeq(S, n) == UNION {[1..k -> S] : k \in 0..n}

Roles == {"system", "user", "assistant"}

CHARACTER_FIELDS ==
  {"name", "description", "personality", "scenario", "first_mes", "mes_example"}

CHARACTER_LABELS ==
  [name |-> "Name", description |-> "Description", personality |-> "Personality",
   scenario |-> "Scenario", first_mes |-> "First Message",
   mes_example |-> "Example Dialogue"]

Text(t) == [t |-> "text", text |-> t]
Var(n) == [t |-> "var", name |-> n]
Bad == [t |-> "bad"]

HostProfiles ==
  <<[id |-> "p1", api |-> Some("openai"), name |-> "main"],
    [id |-> "pNoApi", api |-> None, name |-> "noapi"],
    [id |-> "pEmptyApi", api |-> Some(""), name |-> "emptyapi"],
    [id |-> "pUnknown", api |-> Some("kobold"), name |-> "unknown"],
    [id |-> "pNoSel", api |-> Some("nosel"), name |-> "nosel"]>>

ProfileIds == {"", "p1", "gone", "pNoApi", "pEmptyApi", "pUnknown", "pNoSel"}

BaseFields ==
  [f \in CHARACTER_FIELDS |->
     [prompt |-> <<"fixed">>, value |-> <<"v">>, label |-> CHARACTER_LABELS[f]]]

BaseSession ==
  [selectedCharacterIndexes |-> <<<<"0">>>>,
   selectedWorldNames |-> <<"w1">>,
   fields |-> BaseFields,
   draftFields |-> [hobby |-> [prompt |-> <<"draft">>, value |-> <<>>, label |-> "Hobby"]]]

BaseReq ==
  [profileId |-> "p1",
   userPrompt |-> <<" ", "hello">> \o UserToken \o <<" ">>,
   session |-> BaseSession,
   allCharacters |-> <<[name |-> "c0"], [name |-> "c1"]>>,
   entriesGroupByWorldName |-> [w1 |-> <<[uid |-> 1, disable |-> FALSE]>>],
   promptSettings |->
     [sys |-> [content |-> <<Text(<<"You", "are">>), Var("char"), Text(UserToken)>>],
      task |-> [content |-> <<Var("userInstructions"), Var("fieldSpecificInstructions")>>],
      blank |-> [content |-> <<Var("nothing")>>]],
   formatDescription |-> <<"fmt">>,
   mainContextList |->
     <<[promptName |-> "sys", role |-> "system"],
       [promptName |-> "chatHistory", role |-> "system"],
       [promptName |-> "absent", role |-> "user"],
       [promptName |-> "blank", role |-> "user"],
       [promptName |-> "task", role |-> "user"]>>,
   targetField |-> "description",
   outputFormat |-> "none"]

BaseChat ==
  <<[role |-> "system", content |-> <<"persona">>, meta |-> "builder"],
    [role |-> "assistant", content |-> <<>>, meta |-> "builder"]>>

\* Requests of the specification of the whole call: every profile case, a
\* template the engine rejects, a response format that can fail to parse.
MainReqs ==
  {[BaseReq EXCEPT !.profileId = p] : p \in ProfileIds}
    \cup {[BaseReq EXCEPT !.promptSettings.task = [content |-> <<Text(<<"x">>), Bad>>]],
          [BaseReq EXCEPT !.outputFormat = "xml"]}

InitCalls ==
  /\ pc = [c \in Calls |-> "idle"]
  /\ error = [c \in Calls |-> NoError]
  /\ templateData = [c \in Calls |-> <<>>]
  /\ chatMessages = [c \in Calls |-> <<>>]
  /\ idx = [c \in Calls |-> 0]
  /\ messages = [c \in Calls |-> <<>>]
  /\ rendered = [c \in Calls |-> <<>>]
  /\ content = [c \in Calls |-> <<>>]
  /\ sent = [c \in Calls |-> None]
  /\ buildCount = [c \in Calls |-> 0]
  /\ sendCount = [c \in Calls |-> 0]
  /\ result = [c \in Calls |-> None]

InitNames ==
  /\ name1 \in HostUserNames
  /\ name2 \in HostCharNames

\* Two calls of runCharacterFieldGeneration in flight in one event loop.
Init ==
  /\ req \in MainReqs
  /\ profiles \in {Some(HostProfiles), None}
  /\ baseChat = BaseChat
  /\ InitNames
  /\ InitCalls

Next ==
  \/ \E c \in Calls : CallStep(c)
  \/ HostCallback

Spec == Init /\ [][Next]_vars

\* One call, for the specifications that draw one input from a larger set.
Next1 ==
  \/ CallStep(1)
  \/ HostCallback

\* ------------------------------------------------- claims on the call
\* The profile the request's profileId resolves to, if any.
ResolvedProfiles ==
  IF profiles.some
  THEN {profiles.v[k] : k \in {j \in 1..Len(profiles.v) : profiles.v[j].id = req.profileId}}
  ELSE {}

ApiKnown(p) ==
  /\ p.api.some
  /\ p.api.v \in DOMAIN CONNECT_API_MAP
  /\ CONNECT_API_MAP[p.api.v].selected.some
  /\ CONNECT_API_MAP[p.api.v].selected.v # ""

PreconditionFails ==
  \/ req.profileId = ""
  \/ ResolvedProfiles = {}
  \/ \E p \in ResolvedProfiles : ~ApiKnown(p)

\* C5: with an empty profileId the call fails with the "no profile selected"
\* error and never calls sendRequest; and whenever a precondition fails
\* (empty id, id not found, API not determinable) the call fails without
\* calling buildPrompt or sendRequest.
C5_NoRequestOnFailedPrecondition ==
  \A c \in Calls :
    /\ (req.profileId = "" /\ pc[c] # "idle")
         => (pc[c] = "failed" /\ error[c] = NoProfileSelected)
    /\ PreconditionFails
         => /\ pc[c] \in {"idle", "failed"}
            /\ sendCount[c] = 0
            /\ buildCount[c] = 0
            /\ ~sent[c].some
            /\ ~result[c].some

C5_Witness ==
  /\ req.profileId = ""
  /\ pc[1] = "failed"
  /\ pc[2] = "failed"
  /\ error[1] = NoProfileSelected

\* C6: a profile that resolves but has no known backend API makes the call
\* fail with the "could not determine API" error and with no other error.
C6_ApiUndeterminableOnly ==
  \A c \in Calls :
    (/\ req.profileId # ""
     /\ \E p \in ResolvedProfiles : ~ApiKnown(p)
     /\ pc[c] # "idle")
      => (pc[c] = "failed" /\ error[c] = ApiUndeterminable)

CallState(c) ==
  <<pc[c], error[c], templateData[c], chatMessages[c], idx[c], messages[c],
    rendered[c], content[c], sent[c], buildCount[c], sendCount[c], result[c]>>

NothingElseRuns(c) ==
  /\ name1' = name1
  /\ name2' = name2
  /\ \A d \in Calls \ {c} : CallState(d)' = CallState(d)

\* C9 as stated: from the start of a call to its await of sendRequest no
\* other call and no host callback runs.
C9_OneSuspendPoint ==
  [][\A c \in Calls : pc[c] \in {"awaitBuild", "loop"} => NothingElseRuns(c)]_vars

\* C9 amended: a call has two suspend points, the await of buildPrompt and
\* the await of sendRequest.  The checks, the scalar template context and
\* the call of buildPrompt are one step from idle; the message assembly,
\* from the builder's resolution to the call of sendRequest, is not
\* interleaved with any other call or host callback.
C9_TwoSuspendPoints ==
  [][\A c \in Calls :
       /\ pc[c] = "loop" => NothingElseRuns(c)
       /\ (pc[c] = "idle" /\ pc'[c] # "idle")
            => /\ pc'[c] \in {"awaitBuild", "failed"}
               /\ pc'[c] = "awaitBuild" =>
                    /\ buildCount'[c] = 1
                    /\ templateData'[c].char = (IF name1.some THEN name1.v ELSE CharToken)
                    /\ templateData'[c].user = (IF name2.some THEN name2.v ELSE UserToken)
       /\ (pc[c] = "awaitBuild" /\ pc'[c] # "awaitBuild")
            => pc'[c] \in {"loop", "failed"}
       /\ (pc[c] = "loop" /\ pc'[c] # "loop")
            => pc'[c] \in {"awaitSend", "failed"}
       /\ (pc[c] = "awaitSend" /\ pc'[c] # "awaitSend")
            => pc'[c] \in {"done", "failed"}]_vars

\* A call is in the middle of its message assembly while the other call
\* waits for the builder and the persona names are no longer the ones the
\* first call read.
C9_Witness ==
  /\ pc[1] = "loop"
  /\ idx[1] > 1
  /\ pc[2] = "awaitBuild"
  /\ templateData[1].char # (IF name1.some THEN name1.v ELSE CharToken)

\* C10: sendRequest is called at most once in a call, and only with the
\* complete message list; buildPrompt is called at most once; a call that
\* failed returns nothing, calls nothing more and keeps the error of the step
\* that failed.
C10_NoRetries ==
  /\ [](\A c \in Calls :
          /\ sendCount[c] <= 1
          /\ buildCount[c] <= 1
          /\ sendCount[c] = 1 =>
               /\ idx[c] = Len(req.mainContextList) + 1
               /\ sent[c] = Some(messages[c])
          /\ pc[c] = "failed" => ~result[c].some)
  /\ [][\A c \in Calls :
          /\ pc[c] = "failed" => CallState(c)' = CallState(c)
          /\ (pc[c] = "awaitBuild" /\ pc'[c] = "failed") => error'[c] = BuildError
          /\ (pc[c] = "loop" /\ pc'[c] = "failed") => error'[c] = TemplateError
          /\ (pc[c] = "awaitSend" /\ pc'[c] = "failed")
               => error'[c] \in {RequestError, ParseError}
          /\ sendCount'[c] # sendCount[c]
               => /\ pc[c] = "loop"
                  /\ idx[c] > Len(req.mainContextList)]_vars

C10_Witness ==
  /\ pc[1] = "failed"
  /\ error[1] = RequestError
  /\ sendCount[1] = 1
  /\ buildCount[1] = 1
  /\ pc[2] = "failed"
  /\ error[2] = BuildError

\* ------------------------------------------- claims on template entries
Segments ==
  {Text(UserToken), Text(CharToken), Text(UserPlaceHolder), Text(CharPlaceHolder),
   Text(<<"x">>), Text(<<"[">>), Var("user"), Var("char"), Var("nothing"), Bad}

\* One template, used by two entries with different roles.
TextReqs ==
  {[BaseReq EXCEPT
      !.promptSettings = [task |-> [content |-> t]],
      !.mainContextList = <<[promptName |-> "task", role |-> "assistant"],
                            [promptName |-> "task", role |-> "system"]>>] :
     t \in BoundedSeq(Segments, MaxPieces)}

InitText ==
  /\ req \in TextReqs
  /\ profiles = Some(HostProfiles)
  /\ baseChat = BaseChat
  /\ InitNames
  /\ InitCalls

SpecText == InitText /\ [][Next1]_vars

\* C1: every {{user}} and {{char}} of the rendered content of a template
\* entry is still there, at the same position, in the message emitted for
\* the entry.
C1_PlaceholdersKeepPosition ==
  \A c \in Calls : \A p \in 1..Len(rendered[c]) : \A tok \in {UserToken, CharToken} :
    IsAt(rendered[c], p, tok)
      => /\ IsAt(content[c], p, tok)
         /\ messages[c] # <<>>
         /\ messages[c][Len(messages[c])].content = content[c]

\* What the replace lines do under a host that substitutes only {{user}} and
\* {{char}}: the content emitted is the rendered content with every sentinel
\* text turned into its placeholder, so it is the rendered content itself
\* when that holds no sentinel text.
RestoreRewritesSentinels ==
  \A c \in Calls :
    /\ content[c] =
         replaceAll(replaceAll(rendered[c], UserPlaceHolder, UserToken),
                    CharPlaceHolder, CharToken)
    /\ (\A p \in 1..Len(rendered[c]) :
          ~IsAt(rendered[c], p, UserPlaceHolder) /\ ~IsAt(rendered[c], p, CharPlaceHolder))
         => content[c] = rendered[c]

IsTemplateEntry(entry) ==
  /\ entry.promptName # "chatHistory"
  /\ entry.promptName \in DOMAIN req.promptSettings

\* C7: a template entry whose content is empty after rendering and the
\* replace lines appends no message; otherwise it appends exactly one
\* message, with that content and the entry's role.
C7_NoEmptyMessage ==
  [][\A c \in Calls :
       (/\ pc[c] = "loop"
        /\ idx'[c] = idx[c] + 1
        /\ IsTemplateEntry(req.mainContextList[idx[c]]))
         => IF content'[c] = <<>>
            THEN messages'[c] = messages[c]
            ELSE messages'[c] =
                   Append(messages[c],
                          [role |-> req.mainContextList[idx[c]].role,
                           content |-> content'[c]])]_vars

\* A template that is not empty rendered to nothing, twice, and no message
\* was appended.
C7_Witness ==
  /\ pc[1] = "loop"
  /\ idx[1] = 3
  /\ req.promptSettings.task.content # <<>>
  /\ content[1] = <<>>
  /\ messages[1] = <<>>

\* ------------------------------------------------ claim on chatHistory
ChatMessages ==
  [role : {"system", "assistant"},
   content : {<<>>, <<"hi">>, UserToken, UserPlaceHolder},
   meta : {"builder"}]

HistReqs ==
  {[BaseReq EXCEPT !.mainContextList = <<[promptName |-> "chatHistory", role |-> r]>>] :
     r \in Roles}

InitHist ==
  /\ req \in HistReqs
  /\ profiles = Some(HostProfiles)
  /\ baseChat \in BoundedSeq(ChatMessages, MaxChat)
  /\ InitNames
  /\ InitCalls

SpecHist == InitHist /\ [][Next1]_vars

\* C2: when mainContextList is one chatHistory entry, the messages handed to
\* sendRequest are the base prompt builder's, one for one and in order, each
\* with the builder's role and content.
C2_HistoryVerbatim ==
  \A c \in Calls :
    (/\ Len(req.mainContextList) = 1
     /\ req.mainContextList[1].promptName = "chatHistory"
     /\ sent[c].some)
      => /\ Len(sent[c].v) = Len(baseChat)
         /\ \A k \in 1..Len(baseChat) :
              /\ sent[c].v[k].role = baseChat[k].role
              /\ sent[c].v[k].content = baseChat[k].content

\* The history has a message with empty content and one with a {{user}} in
\* it, the entry's role is none of theirs, and the request was sent.
C2_Witness ==
  /\ sent[1].some
  /\ pc[1] = "done"
  /\ req.mainContextList[1].role = "user"
  /\ Len(baseChat) = 2
  /\ baseChat[1].content = <<>>
  /\ baseChat[2].content = UserToken

\* ------------------------------------------------- claim on lorebooks
RECURSIVE Numbered(_, _)
Numbered(flags, n) ==
  IF flags = <<>> THEN <<>>
  ELSE <<[uid |-> n, disable |-> Head(flags)]>> \o Numbered(Tail(flags), n + 1)

\* Entry lists: the k-th entry has uid k, and any of them may be disabled.
EntryLists == {Numbered(f, 1) : f \in BoundedSeq(BOOLEAN, MaxEntries)}

WorldMaps ==
  UNION {[ws -> EntryLists] : ws \in SUBSET {"w1", "w2"}}

SelectedWorlds == {<<>>, <<"w1">>, <<"w2", "w1">>, <<"w3">>}

LoreReqs ==
  {[BaseReq EXCEPT
      !.entriesGroupByWorldName = m,
      !.session.selectedWorldNames = sel,
      !.mainContextList = <<[promptName |-> "sys", role |-> "system"]>>] :
     m \in WorldMaps, sel \in SelectedWorlds}

InitLore ==
  /\ req \in LoreReqs
  /\ profiles = Some(HostProfiles)
  /\ baseChat = BaseChat
  /\ InitNames
  /\ InitCalls

SpecLore == InitLore /\ [][Next1]_vars

\* C3: lorebooks has a key for a world exactly when the world is a key of
\* entriesGroupByWorldName, is selected and has an entry that is not
\* disabled, and its value is then the world's entries that are not
\* disabled, in their order.
C3_LorebookFilter ==
  \A c \in Calls :
    "lorebooks" \in DOMAIN templateData[c]
      => LET lb == templateData[c].lorebooks
             E == req.entriesGroupByWorldName
             sel == {req.session.selectedWorldNames[k] :
                       k \in 1..Len(req.session.selectedWorldNames)}
         IN /\ DOMAIN lb =
                 {w \in DOMAIN E \cap sel : \E k \in 1..Len(E[w]) : E[w][k].disable = FALSE}
            /\ \A w \in DOMAIN lb :
                 lb[w] = SelectSeq(E[w], LAMBDA e : e.disable = FALSE)

\* Both worlds are selected; w1 has a disabled entry before an enabled one,
\* all of w2 is disabled.
C3_Witness ==
  /\ pc[1] = "awaitSend"
  /\ req.session.selectedWorldNames = <<"w2", "w1">>
  /\ req.entriesGroupByWorldName =
       [w1 |-> <<[uid |-> 1, disable |-> TRUE], [uid |-> 2, disable |-> FALSE]>>,
        w2 |-> <<[uid |-> 1, disable |-> TRUE]>>]
  /\ templateData[1].lorebooks = [w1 |-> <<[uid |-> 2, disable |-> FALSE]>>]

\* ------------------------------------------------ claim on characters
IndexChars == {"0", "1", "2", "-", "a", " "}

IndexStrings == BoundedSeq(IndexChars, MaxIdxLen) \cup {<<"0", "x", "1">>}

CharReqs ==
  {[BaseReq EXCEPT
      !.session.selectedCharacterIndexes = sel,
      !.mainContextList = <<[promptName |-> "sys", role |-> "system"]>>] :
     sel \in BoundedSeq(IndexStrings, MaxSel)}

InitChars ==
  /\ req \in CharReqs
  /\ profiles = Some(HostProfiles)
  /\ baseChat = BaseChat
  /\ InitNames
  /\ InitCalls

SpecChars == InitChars /\ [][Next1]_vars

\* The string form of a small integer.
IntString(i) == <<CASE i = 0 -> "0" [] i = 1 -> "1" [] i = 2 -> "2">>

RECURSIVE ResolvedByStringForm(_, _)
ResolvedByStringForm(indexes, allCharacters) ==
  IF indexes = <<>> THEN <<>>
  ELSE LET hits == {i \in 0..(Len(allCharacters) - 1) : Head(indexes) = IntString(i)}
       IN (IF hits # {} THEN <<allCharacters[(CHOOSE i \in hits : TRUE) + 1]>> ELSE <<>>)
          \o ResolvedByStringForm(Tail(indexes), allCharacters)

\* C4: characters holds, in the order of selectedCharacterIndexes, the
\* character allCharacters[i] of each index string that is the string form of
\* an integer i in range, and nothing for any other index string.
C4_OnlyIntegerStringsResolve ==
  \A c \in Calls :
    "characters" \in DOMAIN templateData[c]
      => templateData[c].characters =
           ResolvedByStringForm(req.session.selectedCharacterIndexes, req.allCharacters)

\* -------------------------------------- claim on fieldSpecificInstructions
Prompts == {<<>>, <<"draft">>}

DraftMaps ==
  UNION {[ks -> {[prompt |-> p, value |-> <<>>, label |-> "Draft"] : p \in Prompts}] :
           ks \in SUBSET {"description", "hobby"}}

FieldReqs ==
  {[BaseReq EXCEPT
      !.session.draftFields = d,
      !.session.fields.description.prompt = fp,
      !.targetField = t,
      !.promptSettings = [task |-> [content |-> <<Var("fieldSpecificInstructions")>>]],
      !.mainContextList = <<[promptName |-> "task", role |-> "user"]>>] :
     d \in DraftMaps, fp \in {<<>>, <<"fixed">>},
     t \in {"description", "hobby", "nickname", "constructor"}}

InitFields ==
  /\ req \in FieldReqs
  /\ profiles = Some(HostProfiles)
  /\ baseChat = BaseChat
  /\ InitNames
  /\ InitCalls

SpecFields == InitFields /\ [][Next1]_vars

\* C8: fieldSpecificInstructions is the draft field's prompt whenever
\* draftFields has the target field, whatever the fixed fields hold; it is
\* the fixed field's prompt only when draftFields has no such entry; with
\* neither it is absent, and the call goes on to build the prompt.
C8_DraftTakesPrecedence ==
  \A c \in Calls :
    pc[c] # "idle"
      => LET t == req.targetField
             draft == req.session.draftFields
             fixed == req.session.fields
             fsi == templateData[c].fieldSpecificInstructions
         IN /\ buildCount[c] = 1
            /\ t \in DOMAIN draft => fsi = Some(draft[t].prompt)
            /\ (t \notin DOMAIN draft /\ t \in DOMAIN fixed) => fsi = Some(fixed[t].prompt)
            /\ (t \notin DOMAIN draft /\ t \notin DOMAIN fixed) => fsi = None

\* The target is a fixed field name that also has a draft entry; the draft
\* prompt is empty, the fixed one is not, and the empty one was used.
C8_Witness ==
  /\ pc[1] = "awaitSend"
  /\ req.targetField = "description"
  /\ "description" \in DOMAIN req.session.draftFields
  /\ req.session.draftFields["description"].prompt = <<>>
  /\ req.session.fields["description"].prompt = <<"fixed">>
  /\ templateData[1].fieldSpecificInstructions = Some(<<>>)
  /\ sent[1] = Some(<<>>)

====
